---- MODULE Spec2Model ----
(***************************************************************************)
(* Model of src/Frostiq.py: the upload handler of the media intelligence   *)
(* dashboard.  One run of the script body (lines 21-243) is a chain of     *)
(* steps: read the CSV, normalise the headers, coerce Date and             *)
(* Engagements, drop the rows without a date, report, and then five chart  *)
(* sections, each building an aggregate table and an insight list.  The    *)
(* whole chain sits in one try block whose handler prints an error.        *)
(*                                                                         *)
(* A cell is a record [kind, v, t]:                                        *)
(*   nan    a missing value (an empty CSV cell)                            *)
(*   empty  the empty string '' (only a synthesised column holds it)       *)
(*   text   a string that is neither a number nor a date; v names it, and  *)
(*          the order of v is the lexicographic order of the names         *)
(*   num    a number, v in tenths (25 is 2.5)                              *)
(*   inf    the float infinity                                             *)
(*   date   a string that parses as a date: day v, time of day t           *)
(*   ts     a pandas Timestamp: day v, time of day t                       *)
(*   nat    pandas NaT                                                     *)
(*   int    an int64 after astype(int): v in units                         *)
(***************************************************************************)
EXTENDS Integers, Sequences, FiniteSets, TLC

VARIABLES file, run, pc, exc, df, stats, tables, percentage_difference, insights, out, first

vars == <<file, run, pc, exc, df, stats, tables, percentage_difference, insights, out, first>>

(* ---------------------------- bounds ----------------------------------- *)
MaxRows == 3
NumLocRows == 6
MaxKey == 3

(* ---------------------------- cells ------------------------------------ *)
Cell(k, v, t) == [kind |-> k, v |-> v, t |-> t]
NaN == Cell("nan", 0, 0)
NaT == Cell("nat", 0, 0)
EmptyStr == Cell("empty", 0, 0)
Text(n) == Cell("text", n, 0)
Num(tenths) == Cell("num", tenths, 0)
Inf == Cell("inf", 0, 0)
DateStr(d, t) == Cell("date", d, t)

\* pandas isnull(): NaN and NaT are missing, a string (even '') is not
IsNull(c) == c.kind \in {"nan", "nat"}

(* ---------------------------- headers ---------------------------------- *)
\* A header is its lower-case trimmed text plus whether the file spelt it
\* with capitals and with surrounding blanks.
Header(b, u, p) == [base |-> b, upper |-> u, padded |-> p]

required_columns == <<"Date", "Platform", "Sentiment", "Location", "Engagements", "Media Type">>

RequiredSet == {required_columns[i] : i \in 1..Len(required_columns)}

column_map == [b \in {"date", "platform", "sentiment", "location", "engagements", "media type"} |->
    CASE b = "date" -> "Date"
      [] b = "platform" -> "Platform"
      [] b = "sentiment" -> "Sentiment"
      [] b = "location" -> "Location"
      [] b = "engagements" -> "Engagements"
      [] b = "media type" -> "Media Type"]

\* col.lower().strip()
LowerStrip(h) == Header(h.base, FALSE, FALSE)

\* df.rename(columns=column_map): only an exact key of the map is renamed
RenameColumn(h) ==
    IF ~h.upper /\ ~h.padded /\ h.base \in DOMAIN column_map
    THEN column_map[h.base]
    ELSE "other"

\* lines 46-53: the table seen through its six required columns; a column
\* that no header maps to is added holding ''
NormalizeColumns(f) ==
    LET names == [i \in 1..Len(f.headers) |-> RenameColumn(LowerStrip(f.headers[i]))]
        has(c) == \E i \in 1..Len(names) : names[i] = c
        at(c) == CHOOSE i \in 1..Len(names) : names[i] = c
    IN [r \in 1..Len(f.rows) |->
          [c \in RequiredSet |-> IF has(c) THEN f.rows[r][at(c)] ELSE EmptyStr]]

(* ---------------------------- coercions -------------------------------- *)
\* ParseDate taking strings only: a Timestamp is turned into NaT
ParseDateStrings(c) ==
    CASE c.kind = "date" -> Cell("ts", c.v, c.t)
      [] c.kind \in {"nan", "nat", "empty", "text", "ts"} -> NaT

\* pd.to_datetime(..., errors='coerce') on one element.  The Date column of
\* the files below holds missing values, strings and Timestamps only.  Each
\* string is parsed on its own; a pandas that infers one format for the
\* whole column turns more strings into NaT, which are then "text" cells.
ParseDate(c) ==
    CASE c.kind = "date" -> Cell("ts", c.v, c.t)
      [] c.kind = "ts" -> c
      [] c.kind \in {"nan", "nat", "empty", "text"} -> NaT

\* pd.to_numeric(..., errors='coerce') on one element: a float, or NaN
ToNumeric(c) ==
    CASE c.kind = "num" -> c
      [] c.kind = "int" -> Num(c.v * 10)
      [] c.kind = "inf" -> c
      [] c.kind \in {"nan", "empty", "text", "date"} -> NaN

\* .fillna(0)
FillNa0(c) == IF c.kind = "nan" THEN Num(0) ELSE c

\* .astype(int) on a finite float: the fraction is cut off, towards zero
AsInt(c) ==
    Cell("int", IF c.v >= 0 THEN c.v \div 10 ELSE -((-c.v) \div 10), 0)

\* line 63-71: is the original cell counted as missing or invalid
MissingOrInvalid(c) == c.kind \in {"nan", "nat", "empty", "text", "date"}

\* df[col].isnull().sum()
NullCount(d, col) == Cardinality({i \in 1..Len(d) : IsNull(d[i][col])})

\* NewNulls without the subtraction: every missing date after the coercion
NewNullsTotal(after, before) == after

\* line 58: the missing dates that the coercion added
NewNulls(after, before) == after - before

\* NoValidData with the comparison turned: never true of a row count
NoValidDataNegative(cleaned_rows) == cleaned_rows < 0

\* line 86
NoValidData(cleaned_rows) == cleaned_rows = 0

\* df.dropna(subset=['Date']): the rows whose Date is not missing, in order
RECURSIVE DropNaDate(_)
DropNaDate(d) ==
    IF Len(d) = 0 THEN <<>>
    ELSE LET rest == DropNaDate(SubSeq(d, 1, Len(d) - 1))
         IN IF IsNull(d[Len(d)]["Date"]) THEN rest ELSE Append(rest, d[Len(d)])

(* ---------------------------- aggregation ------------------------------ *)
\* the group key of a cell: '' sorts before every name; of a Timestamp the
\* calendar day (.dt.date leaves the time of day out)
KeyOf(c) == IF c.kind = "empty" THEN 0 ELSE c.v

AggRow(k, m) == [key |-> k, metric |-> m]

\* the distinct keys of a column in the order of first appearance; missing
\* values are no key (value_counts and groupby both have dropna=True)
RECURSIVE FirstSeen(_, _)
FirstSeen(d, col) ==
    IF Len(d) = 0 THEN <<>>
    ELSE LET rest == FirstSeen(SubSeq(d, 1, Len(d) - 1), col)
             c == d[Len(d)][col]
         IN IF IsNull(c) \/ \E j \in 1..Len(rest) : rest[j] = KeyOf(c)
            THEN rest ELSE Append(rest, KeyOf(c))

\* the keys in ascending order (groupby sorts its groups)
RECURSIVE Ascending(_)
Ascending(S) ==
    IF S = {} THEN <<>>
    ELSE LET m == CHOOSE x \in S : \A y \in S : x <= y
         IN <<m>> \o Ascending(S \ {m})

\* sort_values(ascending=False): descending by metric, ties in their order
RECURSIVE SortDescending(_)
SortDescending(t) ==
    IF Len(t) = 0 THEN <<>>
    ELSE LET rest == SortDescending(SubSeq(t, 1, Len(t) - 1))
             r == t[Len(t)]
             n == Cardinality({j \in 1..Len(rest) : rest[j].metric >= r.metric})
         IN SubSeq(rest, 1, n) \o <<r>> \o SubSeq(rest, n + 1, Len(rest))

\* SumEngagements counting the rows of the group (.count() for .sum())
RECURSIVE SumEngagementsCount(_, _, _)
SumEngagementsCount(d, col, k) ==
    IF Len(d) = 0 THEN 0
    ELSE LET c == d[Len(d)][col]
         IN SumEngagementsCount(SubSeq(d, 1, Len(d) - 1), col, k)
            + (IF ~IsNull(c) /\ KeyOf(c) = k THEN 1 ELSE 0)

RECURSIVE SumEngagements(_, _, _)
SumEngagements(d, col, k) ==
    IF Len(d) = 0 THEN 0
    ELSE LET c == d[Len(d)][col]
         IN SumEngagements(SubSeq(d, 1, Len(d) - 1), col, k)
            + (IF ~IsNull(c) /\ KeyOf(c) = k THEN d[Len(d)]["Engagements"].v ELSE 0)

\* df[col].value_counts().reset_index()
ValueCounts(d, col) ==
    LET ks == FirstSeen(d, col)
    IN SortDescending([j \in 1..Len(ks) |->
          AggRow(ks[j], Cardinality({i \in 1..Len(d) : ~IsNull(d[i][col]) /\ KeyOf(d[i][col]) = ks[j]}))])

\* df.groupby(col)['Engagements'].sum().reset_index()
GroupSum(d, col) ==
    LET ks == Ascending({KeyOf(d[i][col]) : i \in {j \in 1..Len(d) : ~IsNull(d[j][col])}})
    IN [j \in 1..Len(ks) |-> AggRow(ks[j], SumEngagements(d, col, ks[j]))]

TopN == 5

\* HeadRows without the cut
HeadRowsAll(t, n) == t

\* .head(5)
HeadRows(t, n) == SubSeq(t, 1, IF Len(t) < n THEN Len(t) ELSE n)

RECURSIVE TotalMetric(_)
TotalMetric(t) == IF Len(t) = 0 THEN 0 ELSE TotalMetric(SubSeq(t, 1, Len(t) - 1)) + t[Len(t)].metric

(* ---------------------------- insights --------------------------------- *)
OutOfRange == AggRow(-99, 0)

\* t.iloc[k]: the row at the 0-based position k; past the end pandas raises
\* IndexError, which the sections below turn into the exception
ILoc(t, k) == IF k < Len(t) THEN t[k + 1] ELSE OutOfRange

Sentence(id, row, num, den) == [id |-> id, key |-> row.key, num |-> num, den |-> den]

NoRow == AggRow(0, 0)

IndexError(items) == \E j \in 1..Len(items) : items[j].key = OutOfRange.key

When(cond, s) == IF cond THEN <<s>> ELSE <<>>

\* SentimentInsights whose second sentence is guarded by len > 0
SentimentInsightsEarly(t) ==
    LET total == TotalMetric(t)
    IN When(Len(t) > 0, Sentence("dominant", ILoc(t, 0), ILoc(t, 0).metric, total))
       \o When(Len(t) > 0, Sentence("second", ILoc(t, 1), ILoc(t, 1).metric, total))
       \o When(Len(t) > 2, Sentence("third", ILoc(t, 2), ILoc(t, 2).metric, total))

\* lines 109-119
SentimentInsights(t) ==
    LET total == TotalMetric(t)
    IN When(Len(t) > 0, Sentence("dominant", ILoc(t, 0), ILoc(t, 0).metric, total))
       \o When(Len(t) > 1, Sentence("second", ILoc(t, 1), ILoc(t, 1).metric, total))
       \o When(Len(t) > 2, Sentence("third", ILoc(t, 2), ILoc(t, 2).metric, total))

\* idxmax(): the first row holding the largest metric
IdxMax(t) == CHOOSE j \in 1..Len(t) :
                /\ \A i \in 1..Len(t) : t[i].metric <= t[j].metric
                /\ \A i \in 1..(j - 1) : t[i].metric < t[j].metric

\* lines 149-154: the 10% band, in tenths
TrendOf(start, end) ==
    IF end * 10 > start * 11 THEN "upward"
    ELSE IF end * 10 < start * 9 THEN "downward"
    ELSE "stable"

\* lines 138-154
TrendInsights(t) ==
    IF Len(t) > 0
    THEN <<Sentence("peak", t[IdxMax(t)], t[IdxMax(t)].metric, 1),
           Sentence("average", NoRow, TotalMetric(t), Len(t))>>
         \o When(Len(t) > 1,
                 Sentence(TrendOf(ILoc(t, 0).metric, ILoc(t, Len(t) - 1).metric),
                          ILoc(t, Len(t) - 1), ILoc(t, Len(t) - 1).metric, ILoc(t, 0).metric))
    ELSE <<>>

\* line 178; the quotient is kept as a fraction
PercentageDifference(most, second) ==
    IF second.metric # 0
    THEN [inf |-> FALSE, num |-> (most.metric - second.metric) * 100, den |-> second.metric]
    ELSE [inf |-> TRUE, num |-> 0, den |-> 0]

NoDifference == [inf |-> FALSE, num |-> 0, den |-> 0]

\* lines 203-212
MediaTypeInsights(t) ==
    LET total == TotalMetric(t)
    IN When(Len(t) > 0, Sentence("most prevalent", ILoc(t, 0), ILoc(t, 0).metric, total))
       \o When(Len(t) > 1, Sentence("second", ILoc(t, 1), ILoc(t, 1).metric, total))
       \o (IF Len(t) > 0 /\ ILoc(t, 0).metric * 2 < total
           THEN <<Sentence("diverse", NoRow, 0, 1)>>
           ELSE When(Len(t) > 0, Sentence("dominated", NoRow, 0, 1)))

\* lines 231-238
LocationInsights(t) ==
    When(Len(t) > 0, Sentence("highest", ILoc(t, 0), ILoc(t, 0).metric, 1))
    \o When(Len(t) > 1, Sentence("top two", ILoc(t, 1), 0, 1))
    \o When(Len(t) > 2, Sentence("top five", NoRow, 0, 1))

(* ---------------------------- uploads ---------------------------------- *)
\* how a file spells the header of a column
HeaderText(i) ==
    CASE i = 1 -> "date" [] i = 2 -> "platform" [] i = 3 -> "sentiment"
      [] i = 4 -> "location" [] i = 5 -> "engagements" [] i = 6 -> "media type"

StyledHeader(i, style) ==
    Header(HeaderText(i), style = "Title", style = "padded")

\* a row of the six cells in the order of required_columns
RawRow(date, plat, sent, loc, eng, media) == <<date, plat, sent, loc, eng, media>>

\* A CSV file as pd.read_csv hands it over: the headers and the rows of the
\* columns whose style is not "absent", plus a column the script ignores.
CsvFile(style, rs) ==
    LET present == SelectSeq(<<1, 2, 3, 4, 5, 6>>, LAMBDA i : style[i] # "absent")
    IN [corrupt |-> FALSE,
        headers |-> [j \in 1..Len(present) |-> StyledHeader(present[j], style[present[j]])]
                      \o <<Header("id", FALSE, FALSE)>>,
        rows |-> [r \in DOMAIN rs |->
                    [j \in 1..Len(present) |-> rs[r][present[j]]] \o <<Num(10 * r)>>]]

CorruptFile == [corrupt |-> TRUE, headers |-> <<>>, rows |-> <<>>]

TitleStyle == [i \in 1..6 |-> "Title"]

RowsOf(S, lo, hi) == UNION {[1..n -> S] : n \in lo..hi}

DateCells == {NaN, Text(1), DateStr(1, 0), DateStr(2, 0), DateStr(1, 1)}
EngCells == {NaN, Text(1), Num(-15), Num(10), Num(25), Inf}
CatCells == {NaN} \cup {Text(k) : k \in 1..MaxKey}
CatColumns == {2, 3, 4, 6}
Patterns == {"flat", "rising", "falling"}

\* the Engagements of row i under a pattern: 1, 1, 1 or 1, 2, 3 or 3, 2, 1
PatternCell(p, i) ==
    CASE p = "flat" -> Num(10)
      [] p = "rising" -> Num(10 * i)
      [] p = "falling" -> Num(10 * (MaxRows + 1 - i))

\* the Date cells vary
DatesFile(g, p) ==
    CsvFile(TitleStyle,
            [i \in DOMAIN g |-> RawRow(g[i], Text(1), Text(1), Text(1), PatternCell(p, i), Text(1))])

\* the Engagements cells vary
EngagementsFile(g) ==
    CsvFile(TitleStyle,
            [i \in DOMAIN g |-> RawRow(DateStr(1, 0), Text(1), Text(1), Text(1), g[i], Text(1))])

\* the cells of column c, one of Platform, Sentiment, Location and Media
\* Type, vary; the Engagements of the rows are 0, 1, 2, ...
CategoriesFile(g, c) ==
    CsvFile(TitleStyle,
            [i \in DOMAIN g |->
               [j \in 1..6 |-> CASE j = 1 -> DateStr(1, 0)
                                 [] j = 5 -> Num(10 * (i - 1))
                                 [] j = c -> g[i]
                                 [] OTHER -> Text(1)]])

\* more than five locations: row i is from location i, but row m from location 1
LocationsFile(g, m) ==
    CsvFile(TitleStyle,
            [i \in DOMAIN g |->
               RawRow(DateStr(1, 0), Text(1), Text(1),
                      IF i = m THEN Text(1) ELSE Text(i), g[i], Text(1))])

\* DATE,Platform,SENTIMENT,Location,engagements,Media Type: capitals in all
\* headers but one
ScenarioStyle == <<"Title", "Title", "Title", "Title", "lower", "Title">>

\* the spelling of the headers varies, and columns are left out
HeaderStyles ==
    {[i \in 1..6 |-> s] : s \in {"Title", "lower", "padded"}}
    \cup {[i \in 1..6 |-> IF i = c THEN "absent" ELSE "Title"] : c \in 1..6}
    \cup {ScenarioStyle}

HeadersFile(g, style) ==
    CsvFile(style,
            [i \in DOMAIN g |-> RawRow(g[i], Text(1), Text(i), Text(1), Num(10), Text(1))])

\* the uploads the runs start from
Uploaded(f) ==
    \/ \E g \in RowsOf(DateCells, 0, MaxRows), p \in Patterns : f = DatesFile(g, p)
    \/ \E g \in RowsOf(EngCells, 1, MaxRows) : f = EngagementsFile(g)
    \/ \E g \in RowsOf(CatCells, 1, MaxRows), c \in CatColumns : f = CategoriesFile(g, c)
    \/ \E g \in [1..NumLocRows -> {Num(10), Num(20)}], m \in 1..NumLocRows : f = LocationsFile(g, m)
    \/ \E g \in RowsOf({Text(1), DateStr(1, 0)}, 1, MaxRows), style \in HeaderStyles :
          f = HeadersFile(g, style)
    \/ f = CorruptFile

(* ---------------------------- state ------------------------------------ *)
NoTables == [sentiment_counts |-> <<>>, engagement_by_date |-> <<>>,
             platform_engagements |-> <<>>, media_type_counts |-> <<>>,
             engagements_by_location |-> <<>>]

NoInsights == [sentiment |-> <<>>, trend |-> <<>>, platform |-> <<>>,
               media |-> <<>>, location |-> <<>>]

NoStats == [original_rows |-> 0, missing_engagements_count |-> 0,
            invalid_date_count |-> 0, initial_date_nulls |-> 0, cleaned_rows |-> 0]

NoRun == [done |-> FALSE, stats |-> NoStats, tables |-> NoTables, df |-> <<>>]

Init ==
    /\ Uploaded(file)
    /\ run = 1
    /\ pc = "read"
    /\ exc = "none"
    /\ df = <<>>
    /\ stats = NoStats
    /\ tables = NoTables
    /\ insights = NoInsights
    /\ percentage_difference = NoDifference
    /\ out = <<>>
    /\ first = NoRun

\* an exception leaves the try block for the handler of line 241
Raise(e) == pc' = "except" /\ exc' = e

(* ---------------------------- cleaning --------------------------------- *)
\* lines 24-32
ReadCsv ==
    /\ pc = "read"
    /\ IF file.corrupt
       THEN /\ Raise("ParserError")
            /\ UNCHANGED <<df, stats, out>>
       ELSE /\ df' = file.rows
            /\ stats' = [NoStats EXCEPT !.original_rows = Len(file.rows)]
            /\ out' = Append(out, [kind |-> "header", name |-> "cleaning"])
            /\ pc' = "normalize"
            /\ UNCHANGED exc
    /\ UNCHANGED <<file, run, tables, percentage_difference, insights, first>>

\* lines 36-53
Normalize ==
    /\ pc = "normalize"
    /\ df' = NormalizeColumns([file EXCEPT !.rows = df])
    /\ pc' = "coerce_date"
    /\ UNCHANGED <<file, run, exc, stats, tables, percentage_difference, insights, out, first>>

\* lines 56-58
CoerceDate ==
    /\ pc = "coerce_date"
    /\ LET initial_date_nulls == NullCount(df, "Date")
           coerced == [i \in 1..Len(df) |-> [df[i] EXCEPT !["Date"] = ParseDate(@)]]
       IN /\ df' = coerced
          /\ stats' = [stats EXCEPT !.initial_date_nulls = initial_date_nulls,
                                    !.invalid_date_count = NewNulls(NullCount(coerced, "Date"), initial_date_nulls)]
    /\ pc' = "count_engagements"
    /\ UNCHANGED <<file, run, exc, tables, percentage_difference, insights, out, first>>

\* lines 62-71
CountEngagements ==
    /\ pc = "count_engagements"
    /\ stats' = [stats EXCEPT !.missing_engagements_count =
                    Cardinality({i \in 1..Len(df) : MissingOrInvalid(df[i]["Engagements"])})]
    /\ pc' = "coerce_engagements"
    /\ UNCHANGED <<file, run, exc, df, tables, percentage_difference, insights, out, first>>

\* line 73: astype(int) raises on a non-finite value
CoerceEngagements ==
    /\ pc = "coerce_engagements"
    /\ LET filled == [i \in 1..Len(df) |-> FillNa0(ToNumeric(df[i]["Engagements"]))]
       IN IF \E i \in 1..Len(df) : filled[i].kind = "inf"
          THEN /\ Raise("IntCastingNaNError")
               /\ UNCHANGED df
          ELSE /\ df' = [i \in 1..Len(df) |-> [df[i] EXCEPT !["Engagements"] = AsInt(filled[i])]]
               /\ pc' = "dropna"
               /\ UNCHANGED exc
    /\ UNCHANGED <<file, run, stats, tables, percentage_difference, insights, out, first>>

\* lines 77-79
DropInvalidDates ==
    /\ pc = "dropna"
    /\ df' = DropNaDate(df)
    /\ stats' = [stats EXCEPT !.cleaned_rows = Len(DropNaDate(df))]
    /\ pc' = "report"
    /\ UNCHANGED <<file, run, exc, tables, percentage_difference, insights, out, first>>

\* lines 81-89
Report ==
    /\ pc = "report"
    /\ out' = out \o <<[kind |-> "write", name |-> "original", n |-> stats.original_rows],
                       [kind |-> "write", name |-> "valid", n |-> stats.cleaned_rows],
                       [kind |-> "write", name |-> "engagements", n |-> stats.missing_engagements_count],
                       [kind |-> "write", name |-> "skipped", n |-> stats.invalid_date_count],
                       IF NoValidData(stats.cleaned_rows)
                       THEN [kind |-> "warning", name |-> "no valid data"]
                       ELSE [kind |-> "success", name |-> "cleaned"]>>
    /\ pc' = IF NoValidData(stats.cleaned_rows) THEN "done" ELSE "sentiment"
    /\ UNCHANGED <<file, run, exc, df, stats, tables, percentage_difference, insights, first>>

(* ---------------------------- chart sections --------------------------- *)
Chart(name, t) == [kind |-> "chart", name |-> name, data |-> t]
InsightList(name, items) == [kind |-> "insights", name |-> name, items |-> items]

\* one section: the table, st.plotly_chart, the insight list, st.markdown
Section(name, field, t, items, next) ==
    /\ tables' = [tables EXCEPT ![field] = t]
    /\ IF IndexError(items)
       THEN /\ Raise("IndexError")
            /\ out' = out \o <<Chart(name, t)>>
            /\ UNCHANGED insights
       ELSE /\ insights' = [insights EXCEPT ![name] = items]
            /\ out' = out \o <<Chart(name, t), InsightList(name, items)>>
            /\ pc' = next
            /\ UNCHANGED exc

\* lines 94-120
SentimentBreakdown ==
    /\ pc = "sentiment"
    /\ LET t == ValueCounts(df, "Sentiment")
       IN Section("sentiment", "sentiment_counts", t, SentimentInsights(t), "trend")
    /\ UNCHANGED <<file, run, df, stats, percentage_difference, first>>

\* lines 123-155
EngagementTrend ==
    /\ pc = "trend"
    /\ LET t == GroupSum(df, "Date")
       IN Section("trend", "engagement_by_date", t, TrendInsights(t), "platform")
    /\ UNCHANGED <<file, run, df, stats, percentage_difference, first>>

\* lines 159-182.  The replacement field of line 179 puts a format spec
\* inside the call str(...), which is no expression: building the second
\* sentence fails, after the chart of line 169 is on the page.
PlatformEngagements ==
    /\ pc = "platform"
    /\ LET t == SortDescending(GroupSum(df, "Platform"))
           most == When(Len(t) > 0, Sentence("most engaging", ILoc(t, 0), ILoc(t, 0).metric, 1))
       IN IF Len(t) > 1
          THEN /\ tables' = [tables EXCEPT !.platform_engagements = t]
               /\ percentage_difference' = PercentageDifference(ILoc(t, 0), ILoc(t, 1))
               /\ insights' = [insights EXCEPT !.platform = most]
               /\ out' = out \o <<Chart("platform", t)>>
               /\ Raise("SyntaxError")
          ELSE /\ Section("platform", "platform_engagements", t, most, "media")
               /\ UNCHANGED percentage_difference
    /\ UNCHANGED <<file, run, df, stats, first>>

\* lines 186-213
MediaTypeMix ==
    /\ pc = "media"
    /\ LET t == ValueCounts(df, "Media Type")
       IN Section("media", "media_type_counts", t, MediaTypeInsights(t), "location")
    /\ UNCHANGED <<file, run, df, stats, percentage_difference, first>>

\* lines 217-239
TopLocations ==
    /\ pc = "location"
    /\ LET t == HeadRows(SortDescending(GroupSum(df, "Location")), TopN)
       IN Section("location", "engagements_by_location", t, LocationInsights(t), "done")
    /\ UNCHANGED <<file, run, df, stats, percentage_difference, first>>

\* lines 241-243
HandleException ==
    /\ pc = "except"
    /\ out' = out \o <<[kind |-> "error", name |-> exc], [kind |-> "info", name |-> "format"]>>
    /\ pc' = "done"
    /\ UNCHANGED <<file, run, exc, df, stats, tables, percentage_difference, insights, first>>

\* lines 19-21: the next upload starts the script again; here the upload
\* is the cleaned table of the run that just ended
CleaningFailed == exc \in {"ParserError", "IntCastingNaNError"}

Rerun ==
    /\ pc = "done"
    /\ run = 1
    /\ ~CleaningFailed
    /\ first' = [done |-> TRUE, stats |-> stats, tables |-> tables, df |-> df]
    /\ file' = [corrupt |-> FALSE,
                headers |-> [j \in 1..6 |-> StyledHeader(j, "Title")],
                rows |-> [i \in 1..Len(df) |-> [j \in 1..6 |-> df[i][required_columns[j]]]]]
    /\ run' = 2
    /\ pc' = "read"
    /\ exc' = "none"
    /\ df' = <<>>
    /\ stats' = NoStats
    /\ tables' = NoTables
    /\ percentage_difference' = NoDifference
    /\ insights' = NoInsights
    /\ out' = <<>>

Next == ReadCsv \/ Normalize \/ CoerceDate \/ CountEngagements \/ CoerceEngagements
        \/ DropInvalidDates \/ Report \/ SentimentBreakdown \/ EngagementTrend
        \/ PlatformEngagements \/ MediaTypeMix \/ TopLocations \/ HandleException
        \/ Rerun

Spec == Init /\ [][Next]_vars

(* ---------------------------- properties ------------------------------- *)
Charted(name) == \E i \in 1..Len(out) : out[i].kind = "chart" /\ out[i].name = name
Listed(name) == \E i \in 1..Len(out) : out[i].kind = "insights" /\ out[i].name = name
ErrorCount == Cardinality({i \in 1..Len(out) : out[i].kind = "error"})

\* the Date column has been coerced (line 58 is behind)
DateCoerced == pc \notin {"read", "normalize", "coerce_date"} /\ exc # "ParserError"

\* the Engagements column has been coerced (line 73 is behind)
EngagementsCoerced ==
    /\ pc \notin {"read", "normalize", "coerce_date", "count_engagements", "coerce_engagements"}
    /\ ~CleaningFailed

\* the row filter has run (line 79 is behind)
Filtered == EngagementsCoerced /\ pc # "dropna"

\* the Date cell of row i as the file holds it; '' when the file has no such column
OriginalDate(i) ==
    IF \E j \in 1..Len(file.headers) : file.headers[j].base = "date"
    THEN file.rows[i][CHOOSE j \in 1..Len(file.headers) : file.headers[j].base = "date"]
    ELSE EmptyStr

\* the sum of Engagements over the rows of d at the positions I
RECURSIVE SumOver(_, _)
SumOver(d, I) ==
    IF I = {} THEN 0
    ELSE LET i == CHOOSE x \in I : TRUE
         IN d[i]["Engagements"].v + SumOver(d, I \ {i})

Keyed(col) == {i \in 1..Len(df) : ~IsNull(df[i][col])}
KeysOf(col) == {KeyOf(df[i][col]) : i \in Keyed(col)}
RowsOfKey(col, k) == {i \in Keyed(col) : KeyOf(df[i][col]) = k}
TableKeys(t) == {t[j].key : j \in 1..Len(t)}

\* C1 (as claimed): after the row filter cleanedRowCount <= originalRowCount and
\* cleanedRowCount = originalRowCount - invalidDateCount, the count the page
\* reports as "rows skipped".
C1_CleanedIsOriginalMinusInvalid ==
    Filtered =>
        /\ stats.cleaned_rows <= stats.original_rows
        /\ stats.cleaned_rows = stats.original_rows - stats.invalid_date_count

\* C2 (as claimed): the metrics of each count-based table sum to cleanedRowCount and
\* the metrics of each sum-based table sum to the Engagements of all cleaned rows.
C2_AggregatesSumToTotals ==
    /\ Charted("sentiment") => TotalMetric(tables.sentiment_counts) = stats.cleaned_rows
    /\ Charted("media") => TotalMetric(tables.media_type_counts) = stats.cleaned_rows
    /\ Charted("trend") => TotalMetric(tables.engagement_by_date) = SumOver(df, 1..Len(df))
    /\ Charted("platform") => TotalMetric(tables.platform_engagements) = SumOver(df, 1..Len(df))
    /\ Charted("location") => TotalMetric(tables.engagements_by_location) = SumOver(df, 1..Len(df))

\* C2 (amended): a count-based table sums to the number of cleaned rows whose
\* cell in that column is not missing; the by-date table sums to the
\* Engagements of all cleaned rows; the platform table sums to the Engagements
\* of the cleaned rows whose Platform is not missing; the top-locations table
\* sums to the Engagements of the cleaned rows whose Location is in the table.
C2_AggregatesSumOverKeyedRows ==
    /\ Charted("sentiment") =>
          TotalMetric(tables.sentiment_counts) = Cardinality(Keyed("Sentiment"))
    /\ Charted("media") =>
          TotalMetric(tables.media_type_counts) = Cardinality(Keyed("Media Type"))
    /\ Charted("trend") =>
          /\ TotalMetric(tables.engagement_by_date) = SumOver(df, 1..Len(df))
          /\ Len(df) = stats.cleaned_rows
    /\ Charted("platform") =>
          TotalMetric(tables.platform_engagements) = SumOver(df, Keyed("Platform"))
    /\ Charted("location") =>
          TotalMetric(tables.engagements_by_location) =
              SumOver(df, {i \in Keyed("Location") :
                             KeyOf(df[i]["Location"]) \in TableKeys(tables.engagements_by_location)})

\* C2 witness: a sentiment table that leaves a cleaned row out, and a
\* top-locations table that leaves a location with engagements out
C2_Witness ==
    /\ run = 1 /\ pc = "done" /\ exc = "none"
    /\ \/ /\ Len(tables.sentiment_counts) >= 1
          /\ TotalMetric(tables.sentiment_counts) < stats.cleaned_rows
       \/ /\ Len(tables.engagements_by_location) = 5
          /\ TotalMetric(tables.engagements_by_location) < SumOver(df, 1..Len(df))

\* C3 (as claimed): after the coercion of line 73 every Engagements value is a
\* non-negative integer, whatever the cell held.
C3_EngagementsNonNegative ==
    EngagementsCoerced =>
        \A i \in 1..Len(df) : df[i]["Engagements"].kind = "int" /\ df[i]["Engagements"].v >= 0

C6_ZeroCleanedRows ==
    (Filtered /\ stats.cleaned_rows = 0) =>
        /\ exc = "none"
        /\ pc \in {"report", "done"}
        /\ tables = NoTables
        /\ insights = NoInsights
        /\ \A i \in 1..Len(out) : out[i].kind \notin {"chart", "insights", "error", "success"}
        /\ pc = "done" => out[Len(out)].kind = "warning"

\* C6 witness: every date of a file of two or more rows was invalid
C6_Witness ==
    /\ run = 1 /\ pc = "done"
    /\ stats.original_rows >= 2
    /\ stats.cleaned_rows = 0
    /\ out[Len(out)].kind = "warning"

\* C7: the top-locations table has at most 5 rows, in non-increasing order
\* of metric, and holds the first min(5, n) of the n per-location sums: each
\* row is a location with its sum, no location twice, and no location left
\* out has a larger sum than one in the table.
C7_TopLocations ==
    Charted("location") =>
        LET t == tables.engagements_by_location
            keys == KeysOf("Location")
            sum(k) == SumOver(df, RowsOfKey("Location", k))
        IN /\ Len(t) <= 5
           /\ Len(t) = IF Cardinality(keys) < 5 THEN Cardinality(keys) ELSE 5
           /\ \A i, j \in 1..Len(t) : i < j => t[i].metric >= t[j].metric /\ t[i].key # t[j].key
           /\ \A i \in 1..Len(t) : t[i].key \in keys /\ t[i].metric = sum(t[i].key)
           /\ \A k \in keys \ TableKeys(t) : \A i \in 1..Len(t) : sum(k) <= t[i].metric

\* C7 witness: six locations, five of them in the table
C7_Witness ==
    /\ run = 1 /\ Charted("location")
    /\ Cardinality(KeysOf("Location")) = 6
    /\ Len(tables.engagements_by_location) = 5
    /\ tables.engagements_by_location[1].metric > tables.engagements_by_location[5].metric

C9_PlatformDifference ==
    (Charted("platform") /\ Len(tables.platform_engagements) >= 2) =>
        LET t == tables.platform_engagements
        IN /\ exc = "none"
           /\ Len(insights.platform) >= 2
           /\ t[2].metric = 0 => percentage_difference.inf
           /\ t[2].metric # 0 =>
                 /\ ~percentage_difference.inf
                 /\ percentage_difference.num = (t[1].metric - t[2].metric) * 100
                 /\ percentage_difference.den = t[2].metric

\* the rows a sentence speaks about
RankOf(id) ==
    CASE id \in {"second", "top two", "upward", "downward", "stable"} -> 2
      [] id \in {"third", "top three"} -> 3
      [] OTHER -> 1

Dimensions == {<<"sentiment", "sentiment_counts">>, <<"trend", "engagement_by_date">>,
               <<"platform", "platform_engagements">>, <<"media", "media_type_counts">>,
               <<"location", "engagements_by_location">>}

\* C10: every insight list has 0 to 3 sentences, none when its table has no
\* row, a sentence about rank k only when the table has k rows or more, and
\* no row is read past the end of a table.
C10_InsightBounds ==
    /\ exc # "IndexError"
    /\ \A d \in Dimensions :
          LET l == insights[d[1]]
              t == tables[d[2]]
          IN /\ Len(l) <= 3
             /\ Len(t) = 0 => l = <<>>
             /\ \A j \in 1..Len(l) : RankOf(l[j].id) <= Len(t) /\ l[j].key # OutOfRange.key

\* C10 witness: a table without a row and its empty list, next to tables of
\* one row with fewer than three sentences
C10_Witness ==
    /\ run = 1 /\ pc = "done" /\ exc = "none"
    /\ Listed("sentiment") /\ tables.sentiment_counts = <<>> /\ insights.sentiment = <<>>
    /\ Len(tables.media_type_counts) = 1 /\ Len(insights.media) = 2
    /\ Len(tables.engagement_by_date) = 1 /\ Len(insights.trend) = 2

====
